---- MODULE Spec2Model ----
(***************************************************************************)
(* tools/create_medical_favicon.py: a script whose whole body is one       *)
(* print statement with a triple-quoted string literal (source lines 5 to  *)
(* 26).  The model follows one invocation of the script after another:     *)
(* print hands the literal and then its line terminator to sys.stdout, the *)
(* interpreter flushes sys.stdout when the script ends, and the process    *)
(* leaves an exit status.  Text is modelled character by character.        *)
(***************************************************************************)
EXTENDS Integers, Sequences, FiniteSets, TLC

\* ------------------------------------------------------------------ bounds
\* A failing stream accepts a prefix of 0..MaxAccept characters (or exactly
\* the literal) before its first error.
MaxAccept == 0

\* ------------------------------------------------------- the string literal
NL == "\n"

\* The characters of source lines 6 to 25, one tuple per line, without the
\* line breaks that end them.
SourceLines ==
    <<
       \* line 6: Medical Favicon Design Specification:
       <<"M", "e", "d", "i", "c", "a", "l", " ", "F", "a", "v", "i", "c", "o", "n", " ", "D", "e", "s", "i", "g", "n", " ", "S", "p", "e", "c", "i", "f", "i", "c", "a", "t", "i", "o", "n", ":">>,
       \* line 7: =====================================
       <<"=", "=", "=", "=", "=", "=", "=", "=", "=", "=", "=", "=", "=", "=", "=", "=", "=", "=", "=", "=", "=", "=", "=", "=", "=", "=", "=", "=", "=", "=", "=", "=", "=", "=", "=", "=", "=">>,
       \* line 8: - Size: 32x32 pixels
       <<"-", " ", "S", "i", "z", "e", ":", " ", "3", "2", "x", "3", "2", " ", "p", "i", "x", "e", "l", "s">>,
       \* line 9: - Background: Medical blue (#2196F3) with rounded corners
       <<"-", " ", "B", "a", "c", "k", "g", "r", "o", "u", "n", "d", ":", " ", "M", "e", "d", "i", "c", "a", "l", " ", "b", "l", "u", "e", " ", "(", "#", "2", "1", "9", "6", "F", "3", ")", " ", "w", "i", "t", "h", " ", "r", "o", "u", "n", "d", "e", "d", " ", "c", "o", "r", "n", "e", "r", "s">>,
       \* line 10: - Cross: White medical cross in center
       <<"-", " ", "C", "r", "o", "s", "s", ":", " ", "W", "h", "i", "t", "e", " ", "m", "e", "d", "i", "c", "a", "l", " ", "c", "r", "o", "s", "s", " ", "i", "n", " ", "c", "e", "n", "t", "e", "r">>,
       \* line 11: - Accent: Small semi-transparent white dots in corners
       <<"-", " ", "A", "c", "c", "e", "n", "t", ":", " ", "S", "m", "a", "l", "l", " ", "s", "e", "m", "i", "-", "t", "r", "a", "n", "s", "p", "a", "r", "e", "n", "t", " ", "w", "h", "i", "t", "e", " ", "d", "o", "t", "s", " ", "i", "n", " ", "c", "o", "r", "n", "e", "r", "s">>,
       \* line 12: - Style: Professional medical branding matching KP MED logo
       <<"-", " ", "S", "t", "y", "l", "e", ":", " ", "P", "r", "o", "f", "e", "s", "s", "i", "o", "n", "a", "l", " ", "m", "e", "d", "i", "c", "a", "l", " ", "b", "r", "a", "n", "d", "i", "n", "g", " ", "m", "a", "t", "c", "h", "i", "n", "g", " ", "K", "P", " ", "M", "E", "D", " ", "l", "o", "g", "o">>,
       \* line 13: (blank)
       <<>>,
       \* line 14: To manually create this favicon:
       <<"T", "o", " ", "m", "a", "n", "u", "a", "l", "l", "y", " ", "c", "r", "e", "a", "t", "e", " ", "t", "h", "i", "s", " ", "f", "a", "v", "i", "c", "o", "n", ":">>,
       \* line 15: 1. Use any image editor (GIMP, Photoshop, Canva, etc.)
       <<"1", ".", " ", "U", "s", "e", " ", "a", "n", "y", " ", "i", "m", "a", "g", "e", " ", "e", "d", "i", "t", "o", "r", " ", "(", "G", "I", "M", "P", ",", " ", "P", "h", "o", "t", "o", "s", "h", "o", "p", ",", " ", "C", "a", "n", "v", "a", ",", " ", "e", "t", "c", ".", ")">>,
       \* line 16: 2. Create 32x32px canvas
       <<"2", ".", " ", "C", "r", "e", "a", "t", "e", " ", "3", "2", "x", "3", "2", "p", "x", " ", "c", "a", "n", "v", "a", "s">>,
       \* line 17: 3. Fill with blue color #2196F3
       <<"3", ".", " ", "F", "i", "l", "l", " ", "w", "i", "t", "h", " ", "b", "l", "u", "e", " ", "c", "o", "l", "o", "r", " ", "#", "2", "1", "9", "6", "F", "3">>,
       \* line 18: 4. Add rounded corners (6px radius)
       <<"4", ".", " ", "A", "d", "d", " ", "r", "o", "u", "n", "d", "e", "d", " ", "c", "o", "r", "n", "e", "r", "s", " ", "(", "6", "p", "x", " ", "r", "a", "d", "i", "u", "s", ")">>,
       \* line 19: 5. Draw white cross: 
       <<"5", ".", " ", "D", "r", "a", "w", " ", "w", "h", "i", "t", "e", " ", "c", "r", "o", "s", "s", ":", " ">>,
       \* line 20:    - Vertical: 3px wide, 14px tall, centered
       <<" ", " ", " ", "-", " ", "V", "e", "r", "t", "i", "c", "a", "l", ":", " ", "3", "p", "x", " ", "w", "i", "d", "e", ",", " ", "1", "4", "p", "x", " ", "t", "a", "l", "l", ",", " ", "c", "e", "n", "t", "e", "r", "e", "d">>,
       \* line 21:    - Horizontal: 14px wide, 3px tall, centered
       <<" ", " ", " ", "-", " ", "H", "o", "r", "i", "z", "o", "n", "t", "a", "l", ":", " ", "1", "4", "p", "x", " ", "w", "i", "d", "e", ",", " ", "3", "p", "x", " ", "t", "a", "l", "l", ",", " ", "c", "e", "n", "t", "e", "r", "e", "d">>,
       \* line 22: 6. Add 4 small white dots (1px radius, 50% opacity) in corners
       <<"6", ".", " ", "A", "d", "d", " ", "4", " ", "s", "m", "a", "l", "l", " ", "w", "h", "i", "t", "e", " ", "d", "o", "t", "s", " ", "(", "1", "p", "x", " ", "r", "a", "d", "i", "u", "s", ",", " ", "5", "0", "%", " ", "o", "p", "a", "c", "i", "t", "y", ")", " ", "i", "n", " ", "c", "o", "r", "n", "e", "r", "s">>,
       \* line 23: 7. Export as PNG
       <<"7", ".", " ", "E", "x", "p", "o", "r", "t", " ", "a", "s", " ", "P", "N", "G">>,
       \* line 24: (blank)
       <<>>,
       \* line 25: The SVG version has already been created and configured!
       <<"T", "h", "e", " ", "S", "V", "G", " ", "v", "e", "r", "s", "i", "o", "n", " ", "h", "a", "s", " ", "a", "l", "r", "e", "a", "d", "y", " ", "b", "e", "e", "n", " ", "c", "r", "e", "a", "t", "e", "d", " ", "a", "n", "d", " ", "c", "o", "n", "f", "i", "g", "u", "r", "e", "d", "!">>
    >>

RECURSIVE JoinLines(_)
\* Each line followed by its line break, concatenated.
JoinLines(ls) ==
    IF ls = <<>> THEN <<>> ELSE Head(ls) \o <<NL>> \o JoinLines(Tail(ls))

\* Mutant of StringLiteral: the text starts right after the opening quotes.
StringLiteralUnframed == JoinLines(SourceLines)

\* Mutant of StringLiteral: the last step (line 23) carries the number 6 again.
StringLiteralMisnumbered ==
    <<NL>> \o JoinLines([SourceLines EXCEPT ![18] = <<"6">> \o Tail(@)])

\* The value of the string literal: the line break that follows the opening
\* quotes on line 5, then lines 6 to 25, each with its line break; the closing
\* quotes stand at the start of line 26.
StringLiteral == <<NL>> \o JoinLines(SourceLines)

\* Mutant of PrintEnd: print called with end="".
PrintEndNone == <<>>

\* print's line terminator: the call passes no end argument.
PrintEnd == <<NL>>

\* ------------------------------------------------------------ the inputs
\* What an invocation could be given.  The script reads none of it.
Argvs == {<<>>, <<"--output", "favicon.png">>}
Environs == {{}, {"FAVICON_SIZE"}}
Stdins == {<<>>, <<"y", NL>>}
FileSystems == {{}, {"favicon.png"}}

\* The stream the process has as standard output: absent ("closed": the
\* interpreter leaves sys.stdout unset and print returns at once), block
\* buffered ("buffered": a file or a pipe) or written through ("unbuffered").
\* A broken stream accepts `capacity` characters and then fails every write.
Capacities == (0 .. MaxAccept) \cup {Len(StringLiteral)}
StdoutConditions ==
    {[kind |-> "closed", broken |-> FALSE, capacity |-> 0]}
    \cup {[kind |-> k, broken |-> FALSE, capacity |-> 0] :
              k \in {"buffered", "unbuffered"}}
    \cup {[kind |-> k, broken |-> TRUE, capacity |-> c] :
              k \in {"buffered", "unbuffered"}, c \in Capacities}

VARIABLES
    argv,        \* command-line arguments of the current invocation
    environ,     \* its environment variables
    stdin,       \* its standard input
    files,       \* the file system
    filesAtStart,\* the file system as the current invocation found it
    cond,        \* the condition of its standard output stream
    pc,          \* "print", "print_end", "exit" or "done"
    printCalls,  \* how often the print statement has been entered
    raised,      \* an exception is propagating out of the script
    fault,       \* a write to the stream has failed
    pending,     \* characters sys.stdout holds in its buffer
    stdout,      \* characters that have reached the stream
    exitStatus,  \* the exit status of the process, -1 while it runs
    prev         \* <<>> or <<record of the invocation before this one>>

vars == <<argv, environ, stdin, files, filesAtStart, cond, pc, printCalls,
          raised, fault, pending, stdout, exitStatus, prev>>
inputs == <<argv, environ, stdin, filesAtStart, cond>>

\* ------------------------------------------------------------ the stream
\* How many characters of data the stream takes, given what it already holds.
Accepted(out, data) ==
    IF ~cond.broken \/ Len(out) + Len(data) <= cond.capacity
    THEN Len(data)
    ELSE cond.capacity - Len(out)

\* Mutant of FileWrite: a failed write is caught and the script goes on.
FileWriteCaught(data, next) ==
    IF cond.kind = "buffered"
    THEN /\ pending' = pending \o data
         /\ pc' = next
         /\ UNCHANGED <<stdout, raised, fault>>
    ELSE LET n == Accepted(stdout, data) IN
         /\ stdout' = stdout \o SubSeq(data, 1, n)
         /\ fault' = (n < Len(data))
         /\ raised' = FALSE
         /\ pc' = next
         /\ UNCHANGED pending

\* sys.stdout.write(data) as print calls it: a buffered stream keeps the data,
\* a written-through stream hands it to the operating system, and a failed
\* write raises out of print and out of the script, which has no handler.
FileWrite(data, next) ==
    IF cond.kind = "buffered"
    THEN /\ pending' = pending \o data
         /\ pc' = next
         /\ UNCHANGED <<stdout, raised, fault>>
    ELSE LET n == Accepted(stdout, data) IN
         /\ stdout' = stdout \o SubSeq(data, 1, n)
         /\ fault' = (n < Len(data))
         /\ raised' = (n < Len(data))
         /\ pc' = IF n < Len(data) THEN "exit" ELSE next
         /\ UNCHANGED pending

\* The exit status the interpreter leaves: 120 when the flush at shutdown
\* failed, 1 when the script ended by an uncaught exception, 0 otherwise.
\* Mutant of ExitStatus: the script ends with sys.exit(1).
ExitStatusAlwaysError(exc, flushFailed) == IF flushFailed THEN 120 ELSE 1

ExitStatus(exc, flushFailed) ==
    IF flushFailed THEN 120 ELSE IF exc THEN 1 ELSE 0

\* ------------------------------------------------------------- the steps
Init ==
    /\ argv \in Argvs
    /\ environ \in Environs
    /\ stdin \in Stdins
    /\ files \in FileSystems
    /\ filesAtStart = files
    /\ cond \in StdoutConditions
    /\ pc = "print"
    /\ printCalls = 0
    /\ raised = FALSE
    /\ fault = FALSE
    /\ pending = <<>>
    /\ stdout = <<>>
    /\ exitStatus = -1
    /\ prev = <<>>

\* Mutant of PrintWrite: the text is printed only on the first run, which
\* leaves a file behind to say so.
PrintWriteOnce ==
    /\ pc = "print"
    /\ printCalls' = printCalls + 1
    /\ IF cond.kind = "closed" \/ "favicon.png" \in files
       THEN pc' = "exit" /\ UNCHANGED <<pending, stdout, raised, fault>>
       ELSE FileWrite(StringLiteral, "print_end")
    /\ files' = files \cup {"favicon.png"}
    /\ UNCHANGED <<inputs, exitStatus, prev>>

\* Mutant of PrintWrite: the script also writes the image it describes.
PrintWriteAndSave ==
    /\ pc = "print"
    /\ printCalls' = printCalls + 1
    /\ IF cond.kind = "closed"
       THEN pc' = "exit" /\ UNCHANGED <<pending, stdout, raised, fault>>
       ELSE FileWrite(StringLiteral, "print_end")
    /\ files' = {"favicon.png"}
    /\ UNCHANGED <<inputs, exitStatus, prev>>

\* Mutant of PrintWrite: with arguments the script prints nothing.
PrintWriteUnlessArgs ==
    /\ pc = "print"
    /\ printCalls' = printCalls + 1
    /\ IF cond.kind = "closed"
       THEN pc' = "exit" /\ UNCHANGED <<pending, stdout, raised, fault>>
       ELSE FileWrite(IF argv = <<>> THEN StringLiteral ELSE <<>>, "print_end")
    /\ UNCHANGED <<inputs, files, exitStatus, prev>>

\* Line 5: print is entered and writes its one argument, the literal.
PrintWrite ==
    /\ pc = "print"
    /\ printCalls' = printCalls + 1
    /\ IF cond.kind = "closed"
       THEN pc' = "exit" /\ UNCHANGED <<pending, stdout, raised, fault>>
       ELSE FileWrite(StringLiteral, "print_end")
    /\ UNCHANGED <<inputs, files, exitStatus, prev>>

\* Mutant of PrintWriteEnd: the print statement is run again.
PrintWriteEndLoop ==
    /\ pc = "print_end"
    /\ FileWrite(PrintEnd, "print")
    /\ UNCHANGED <<inputs, files, printCalls, exitStatus, prev>>

\* Line 26: print writes its line terminator and returns; the script ends.
PrintWriteEnd ==
    /\ pc = "print_end"
    /\ FileWrite(PrintEnd, "exit")
    /\ UNCHANGED <<inputs, files, printCalls, exitStatus, prev>>

\* The interpreter shuts down: it flushes sys.stdout and the process exits.
Exit ==
    /\ pc = "exit"
    /\ LET n == Accepted(stdout, pending) IN
       /\ stdout' = stdout \o SubSeq(pending, 1, n)
       /\ fault' = (fault \/ n < Len(pending))
       /\ exitStatus' = ExitStatus(raised, n < Len(pending))
    /\ pending' = <<>>
    /\ pc' = "done"
    /\ UNCHANGED <<inputs, files, printCalls, raised, prev>>

\* What an invocation leaves to be compared with the next one.
RunRecord ==
    [argv |-> argv, environ |-> environ, stdin |-> stdin,
     filesAtStart |-> filesAtStart, filesAtEnd |-> files, cond |-> cond,
     out |-> stdout, status |-> exitStatus]

\* The script is invoked again, in a fresh process with inputs of its own.  The
\* file system is what the last invocation left, or has been changed since.
Invoke ==
    /\ pc = "done"
    /\ prev' = <<RunRecord>>
    /\ argv' \in Argvs
    /\ environ' \in Environs
    /\ stdin' \in Stdins
    /\ files' \in FileSystems
    /\ filesAtStart' = files'
    /\ cond' \in StdoutConditions
    /\ pc' = "print"
    /\ printCalls' = 0
    /\ raised' = FALSE
    /\ fault' = FALSE
    /\ pending' = <<>>
    /\ stdout' = <<>>
    /\ exitStatus' = -1

Next == PrintWrite \/ PrintWriteEnd \/ Exit \/ Invoke

Spec == Init /\ [][Next]_vars

\* One process, one thread, no blocking call: a step that can be taken is
\* taken.  Whether the script is invoked again is up to its user.
FairSpec == Spec /\ WF_vars(PrintWrite) /\ WF_vars(PrintWriteEnd) /\ WF_vars(Exit)

\* ------------------------------------------------------ reading the output
IsPrefix(a, b) == Len(a) <= Len(b) /\ a = SubSeq(b, 1, Len(a))

StartsWith(l, p) == IsPrefix(p, l)

\* The lines of s, each ended by a line break in s and given without it;
\* characters after the last line break belong to no line.
SplitLines(s) ==
    LET P == {i \in 1 .. Len(s) : s[i] = NL}
        pos(k) == IF k = 0 THEN 0
                  ELSE CHOOSE i \in P : Cardinality({j \in P : j <= i}) = k
    IN  [k \in 1 .. Cardinality(P) |-> SubSeq(s, pos(k - 1) + 1, pos(k) - 1)]

DigitChars == <<"0", "1", "2", "3", "4", "5", "6", "7", "8", "9">>
IsDigit(c) == \E d \in 1 .. 10 : DigitChars[d] = c
DigitValue(c) == (CHOOSE d \in 1 .. 10 : DigitChars[d] = c) - 1

\* A numbered instruction: a digit, a full stop, a space.
IsStep(l) == Len(l) >= 3 /\ IsDigit(l[1]) /\ l[2] = "." /\ l[3] = " "
IsSubItem(l) == StartsWith(l, <<" ", " ", " ", "-", " ">>)

\* The k-th smallest member of a set of numbers.
Kth(S, k) == CHOOSE i \in S : Cardinality({j \in S : j <= i}) = k

Writable == cond.kind # "closed" /\ ~cond.broken
Finished == pc = "done"
Last == prev[1]

\* ------------------------------------------------------------------ claims

\* C1: in an invocation whose standard output is writable, what is written to
\* standard output is the string literal followed by one line break and nothing
\* else: while the script runs, what it has written is a prefix of that, and
\* when the process has ended it is all of it.
C1_ExactOutput ==
    Writable =>
        /\ IsPrefix(stdout \o pending, StringLiteral \o <<NL>>)
        /\ Finished => stdout = StringLiteral \o <<NL>>
C1_Witness == Writable /\ Finished /\ Len(stdout) > Len(StringLiteral)

\* C2: every invocation ends, and one in which no write to standard output has
\* failed ends with exit status 0.
C2_TerminatesWithZero ==
    /\ [](Finished /\ ~fault => exitStatus = 0)
    /\ (~Finished) ~> Finished
C2_Witness == Finished /\ ~fault /\ Writable /\ exitStatus = 0 /\ stdout # <<>>

\* C3: a run that follows another in the same environment (the same arguments,
\* variables, standard input and stream, and the files as the first run left
\* them) writes the same output and ends with the same exit status.
SameEnvironment ==
    /\ prev # <<>>
    /\ Last.argv = argv /\ Last.environ = environ /\ Last.stdin = stdin
    /\ Last.cond = cond
    /\ Last.filesAtEnd = filesAtStart
C3_Deterministic ==
    Finished /\ SameEnvironment => stdout = Last.out /\ exitStatus = Last.status
C3_Witness == Finished /\ SameEnvironment /\ Writable /\ files # {} /\ stdout # <<>>

\* C4: from its start to its end a run leaves the file system as it found it,
\* and so did the run before it.
C4_FilesUnchanged ==
    /\ files = filesAtStart
    /\ prev # <<>> => Last.filesAtEnd = Last.filesAtStart
C4_Witness == Finished /\ prev # <<>> /\ files # {} /\ Last.filesAtEnd = {} /\ Last.out # <<>>

\* C5: two runs on streams in the same condition write the same output and end
\* with the same exit status, whatever their arguments, environment variables,
\* standard input and files.
C5_InputIndependent ==
    Finished /\ prev # <<>> /\ Last.cond = cond =>
        stdout = Last.out /\ exitStatus = Last.status
C5_Witness ==
    /\ Finished /\ prev # <<>> /\ Last.cond = cond
    /\ Last.argv # argv /\ Last.environ # environ /\ Last.stdin # stdin
    /\ Last.filesAtStart # filesAtStart
    /\ stdout # <<>>

Occurrences(t, s) ==
    Cardinality({i \in 1 .. Len(s) - Len(t) + 1 : SubSeq(s, i, i + Len(t) - 1) = t})
C7_StraightLine ==
    /\ [](/\ printCalls <= 1
          /\ pc # "print" => printCalls = 1
          /\ Finished /\ Writable => Occurrences(StringLiteral, stdout) = 1
          /\ ~Finished => exitStatus = -1)
    /\ [][/\ pc = "print" => pc' \in {"print_end", "exit"}
          /\ pc = "print_end" => pc' = "exit"
          /\ pc = "exit" => pc' = "done"
          /\ pc = "done" => pc' = "print" /\ prev'[1].out = stdout
          /\ IsPrefix(stdout, stdout') \/ pc = "done"]_vars
C7_Witness ==
    Finished /\ Writable /\ cond.kind = "unbuffered" /\ printCalls = 1 /\ stdout # <<>>

\* C8: the output of a writable run is 22 lines, each ended by a line break:
\* an empty line, the 20 lines of source lines 6 to 25 (two of them empty,
\* the first being the title and the last the closing sentence), and an empty
\* line.
Title ==
    <<"M", "e", "d", "i", "c", "a", "l", " ", "F", "a", "v", "i", "c", "o", "n", " ", "D", "e", "s", "i", "g", "n", " ", "S", "p", "e", "c", "i", "f", "i", "c", "a", "t", "i", "o", "n", ":">>
Closing ==
    <<"T", "h", "e", " ", "S", "V", "G", " ", "v", "e", "r", "s", "i", "o", "n", " ", "h", "a", "s", " ", "a", "l", "r", "e", "a", "d", "y", " ", "b", "e", "e", "n", " ", "c", "r", "e", "a", "t", "e", "d", " ", "a", "n", "d", " ", "c", "o", "n", "f", "i", "g", "u", "r", "e", "d", "!">>
C8_FramedByEmptyLines ==
    Finished /\ Writable =>
        LET ls == SplitLines(stdout) IN
        /\ stdout[Len(stdout)] = NL
        /\ Len(ls) = 22
        /\ ls[1] = <<>> /\ ls[22] = <<>>
        /\ ls[2] = Title /\ ls[21] = Closing
        /\ SubSeq(ls, 2, 21) = SourceLines
        /\ Cardinality({i \in 2 .. 21 : ls[i] = <<>>}) = 2
C8_Witness == Finished /\ Writable /\ cond.kind = "buffered" /\ Len(SplitLines(stdout)) > 1

\* C9: in the output of a writable run the numbered instructions are seven
\* lines, numbered 1 to 7 in order, all after the line 'To manually create this
\* favicon:'; the two indented items, Vertical then Horizontal, are the two
\* lines between step 5 and step 6.
ManualHeader ==
    <<"T", "o", " ", "m", "a", "n", "u", "a", "l", "l", "y", " ", "c", "r", "e", "a", "t", "e", " ", "t", "h", "i", "s", " ", "f", "a", "v", "i", "c", "o", "n", ":">>
C9_StepsNumbered ==
    Finished /\ Writable =>
        LET ls == SplitLines(stdout)
            steps == {i \in 1 .. Len(ls) : IsStep(ls[i])}
            subs == {i \in 1 .. Len(ls) : IsSubItem(ls[i])}
            heads == {i \in 1 .. Len(ls) : ls[i] = ManualHeader}
        IN
        /\ Cardinality(heads) = 1
        /\ Cardinality(steps) = 7
        /\ \A k \in 1 .. 7 : DigitValue(ls[Kth(steps, k)][1]) = k
        /\ \A i \in steps : \A h \in heads : i > h
        /\ subs = {Kth(steps, 5) + 1, Kth(steps, 5) + 2}
        /\ Kth(steps, 6) = Kth(steps, 5) + 3
        /\ StartsWith(ls[Kth(steps, 5) + 1], <<" ", " ", " ", "-", " ", "V", "e", "r", "t", "i", "c", "a", "l">>)
        /\ StartsWith(ls[Kth(steps, 5) + 2], <<" ", " ", " ", "-", " ", "H", "o", "r", "i", "z", "o", "n", "t", "a", "l">>)
C9_Witness ==
    Finished /\ Writable /\ \E i \in 1 .. Len(stdout) - 1 : stdout[i] = "7" /\ stdout[i + 1] = "."

====
